---------------------------- MODULE Spec2Model ----------------------------
(***************************************************************************)
(* Gaze-Unity: the gaze estimation engine (UnityGaze/unity_gaze.py) and    *)
(* the main loop that maps its output to a screen position and streams it  *)
(* over a socket (main.py).                                                *)
(*                                                                         *)
(* One main-loop iteration is modelled as the steps                        *)
(*   read   -> Refresh        (cam.read, gaze.refresh)                     *)
(*   coords -> GetGazeCoords  (p_xy = get_gaze_coords(frame))              *)
(*   send   -> SendGaze / SkipGaze                                         *)
(*   show   -> Continue / Quit (annotated_frame, imshow, waitKey)          *)
(* An exception that escapes the loop ends the program (pc = "crashed").   *)
(*                                                                         *)
(* Numbers: Python floats are modelled as exact rationals, a quotient a/b  *)
(* being kept as the pair [num |-> a, den |-> b].  Blinking ratios are     *)
(* kept in tenths (38 stands for 3.8).  Rounding of floats is not         *)
(* modelled.  The calibration store and the image processing of eye.py     *)
(* are not modelled either: what they decide, whether and where a pupil    *)
(* is found in an eye region, is an input of every frame.                  *)
(***************************************************************************)
EXTENDS Integers, Sequences, FiniteSets, TLC

VARIABLES
    frame,       \* GazeEstimation.frame: what the last frame read yields
    eye_left,    \* GazeEstimation.eye_left : None or an Eye
    eye_right,   \* GazeEstimation.eye_right: None or an Eye
    coords_arr,  \* GazeEstimation.coords_arr: None or the two coarse boxes
    p_xy,        \* main loop: result of the last get_gaze_coords call
    packet,      \* main loop: the last gaze_coord triple that was encoded
    sent,        \* number of packets written to the socket so far
    pc,          \* position of the main loop
    exc          \* the exception that ended the program, if any

vars == <<frame, eye_left, eye_right, coords_arr, p_xy, packet, sent, pc, exc>>

-----------------------------------------------------------------------------
(* Python values *)

None == [kind |-> "None"]
Value(v) == [kind |-> "value", v |-> v]
Raise(e) == [kind |-> "raise", exc |-> e]

\* int(n / d) for d > 0: Python's int() truncates towards zero
Trunc(n, d) == IF n >= 0 THEN n \div d ELSE -((-n) \div d)

Abs(n) == IF n >= 0 THEN n ELSE -n

-----------------------------------------------------------------------------
(* Bounds and input sets *)

\* the program runs until MaxPackets packets were sent
MaxPackets == 2

\* the screen resolution returned by get_screen_res()
sc_width == 1920
sc_height == 1080

\* margin of the eye region around the eye contour
margin == 5

\* Eye contours: the six landmarks of one eye, in landmark order
\* (36..41 for the left eye, 42..47 for the right eye), as <<x, y>> points.
LeftContours ==
    { << <<10,10>>, <<12,8>>, <<16,8>>, <<20,10>>, <<16,12>>, <<12,12>> >>,
      \* all six landmarks on one point: the region is 2*margin wide and high
      << <<11,9>>, <<11,9>>, <<11,9>>, <<11,9>>, <<11,9>>, <<11,9>> >>,
      << <<35,100>>, <<50,87>>, <<80,87>>, <<95,100>>, <<80,113>>, <<50,113>> >> }

RightContours ==
    { << <<30,10>>, <<32,8>>, <<36,8>>, <<40,10>>, <<36,12>>, <<32,12>> >>,
      << <<135,100>>, <<150,87>>, <<180,87>>, <<195,100>>, <<180,113>>, <<150,113>> >> }

\* Outcome of the pupil detection in one eye region: <<>> when no pupil was
\* found (pupil.x and pupil.y are None), else <<x, y>> in region coordinates.
PupilOutcomes ==
    { <<>>, <<0,0>>, <<3,3>>, <<10,7>>, <<70,18>> }

\* Blinking ratio of one eye, in tenths
BlinkRatios == {30, 46}

\* the 68 landmarks of the first face, restricted to the two eye contours
Landmarks(lc, rc) ==
    [i \in 36..47 |-> IF i <= 41 THEN lc[i - 35] ELSE rc[i - 41]]

\* What one camera frame yields: the number of faces found by the detector,
\* the landmarks of the first face, and per side (1 = left, 2 = right) the
\* outcome of the pupil detection and the blinking ratio.
Frames ==
    { [faces |-> 0] }
    \cup
    { [faces |-> 1, landmarks |-> Landmarks(lc, rc),
       pupil |-> <<pl, pr>>, blinking |-> <<bl, br>>] :
         lc \in LeftContours, rc \in RightContours,
         pl \in PupilOutcomes, pr \in PupilOutcomes,
         bl \in BlinkRatios, br \in BlinkRatios }

-----------------------------------------------------------------------------
(* UnityGaze/eye.py (not part of the sources at hand): an Eye binds the    *)
(* region geometry, the pupil and the blinking ratio of one side.          *)

\* first landmark index of a side (0 = left, 1 = right)
FirstPoint(side) == IF side = 0 THEN 36 ELSE 42

Min2(a, b) == IF a <= b THEN a ELSE b
Max2(a, b) == IF a >= b THEN a ELSE b

\* smallest / largest coordinate k of the six contour points of a side
MinOf(landmarks, side, k) ==
    LET f == FirstPoint(side)
    IN  Min2(Min2(Min2(landmarks[f][k], landmarks[f + 1][k]),
                  Min2(landmarks[f + 2][k], landmarks[f + 3][k])),
             Min2(landmarks[f + 4][k], landmarks[f + 5][k]))
MaxOf(landmarks, side, k) ==
    LET f == FirstPoint(side)
    IN  Max2(Max2(Max2(landmarks[f][k], landmarks[f + 1][k]),
                  Max2(landmarks[f + 2][k], landmarks[f + 3][k])),
             Max2(landmarks[f + 4][k], landmarks[f + 5][k]))

\* Eye(frame, landmarks, side, calibration).  `size` is the region's
\* <<width, height>>, i.e. twice Eye.center, so that center * 2 is exact.
Eye(fr, side) ==
    LET min_x == MinOf(fr.landmarks, side, 1) - margin
        max_x == MaxOf(fr.landmarks, side, 1) + margin
        min_y == MinOf(fr.landmarks, side, 2) - margin
        max_y == MaxOf(fr.landmarks, side, 2) + margin
    IN  [kind |-> "Eye",
         origin |-> <<min_x, min_y>>,
         size |-> <<max_x - min_x, max_y - min_y>>,
         pupil |-> fr.pupil[side + 1],
         blinking |-> fr.blinking[side + 1]]

-----------------------------------------------------------------------------
(* GazeEstimation *)

\* landmarks.part(i).x and .y
part_x(landmarks, i) == landmarks[i][1]
part_y(landmarks, i) == landmarks[i][2]

\* int(eye.pupil.x); int(eye.pupil.y) succeeds
HasPupil(eye) == eye # None /\ Len(eye.pupil) = 2

\* variant: tests the coordinates for truth instead of converting them
pupils_located_truthy(el, er) ==
    /\ HasPupil(el) /\ el.pupil[1] # 0 /\ el.pupil[2] # 0
    /\ HasPupil(er) /\ er.pupil[1] # 0 /\ er.pupil[2] # 0

pupils_located(el, er) == HasPupil(el) /\ HasPupil(er)

\* variant: the except clause leaves the eyes of the previous frame in place
Analyze_keeps_eyes(fr) ==
    IF fr.faces = 0
    THEN <<>>
    ELSE [coords_arr |->
              Value(<< <<part_x(fr.landmarks, 36), part_x(fr.landmarks, 39),
                         part_y(fr.landmarks, 37), part_y(fr.landmarks, 40)>>,
                       <<part_x(fr.landmarks, 42), part_x(fr.landmarks, 45),
                         part_y(fr.landmarks, 44), part_y(fr.landmarks, 47)>> >>),
          eye_left |-> Eye(fr, 0),
          eye_right |-> Eye(fr, 1)]

\* _analyze on fr, what the frame yields: the assignments it makes to the
\* fields of the engine (a field it does not assign keeps its value)
Analyze(fr) ==
    IF fr.faces = 0
    THEN \* faces[0] raises IndexError, handled by the except clause
         [eye_left |-> None, eye_right |-> None]
    ELSE LET lm == fr.landmarks
             left_eye_bbox_coords ==
                 <<part_x(lm, 36), part_x(lm, 39), part_y(lm, 37), part_y(lm, 40)>>
             right_eye_bbox_coords ==
                 <<part_x(lm, 42), part_x(lm, 45), part_y(lm, 44), part_y(lm, 47)>>
         IN  [coords_arr |-> Value(<<left_eye_bbox_coords, right_eye_bbox_coords>>),
              eye_left |-> Eye(fr, 0),
              eye_right |-> Eye(fr, 1)]

\* the value of field f after the assignments `assigned`
Assign(assigned, f, old) == IF f \in DOMAIN assigned THEN assigned[f] ELSE old

\* every frame with the assignments _analyze makes on it
Analyses == { [frame |-> f, assigned |-> Analyze(f)] : f \in Frames }

\* variant: only the eye asked for has to have a pupil
pupil_coords_one_eye(el, er, eye) ==
    IF HasPupil(eye)
    THEN Value(<<eye.origin[1] + eye.pupil[1], eye.origin[2] + eye.pupil[2]>>)
    ELSE None

pupil_coords(el, er, eye) ==
    IF pupils_located(el, er)
    THEN Value(<<eye.origin[1] + eye.pupil[1], eye.origin[2] + eye.pupil[2]>>)
    ELSE None

pupil_left_coords(el, er) == pupil_coords(el, er, el)
pupil_right_coords(el, er) == pupil_coords(el, er, er)

\* (pl / dl + pr / dr) / 2 with dl = center * 2 - 10 of the left eye
axis_ratio(el, er, k) ==
    IF pupils_located(el, er)
    THEN LET dl == el.size[k] - 10
             dr == er.size[k] - 10
         IN  IF dl = 0 \/ dr = 0
             THEN Raise("ZeroDivisionError")
             ELSE Value([num |-> el.pupil[k] * dr + er.pupil[k] * dl,
                         den |-> 2 * dl * dr])
    ELSE None

horizontal_ratio(el, er) == axis_ratio(el, er, 1)
vertical_ratio(el, er) == axis_ratio(el, er, 2)

\* q <= n / d and q >= n / d for a quotient q = [num, den]
FracLeq(q, n, d) ==
    IF q.den > 0 THEN q.num * d <= n * q.den ELSE q.num * d >= n * q.den
FracGeq(q, n, d) ==
    IF q.den > 0 THEN q.num * d >= n * q.den ELSE q.num * d <= n * q.den

is_right(el, er) ==
    IF pupils_located(el, er)
    THEN LET r == horizontal_ratio(el, er)
         IN  IF r.kind = "raise" THEN r ELSE Value(FracLeq(r.v, 35, 100))
    ELSE None

is_left(el, er) ==
    IF pupils_located(el, er)
    THEN LET r == horizontal_ratio(el, er)
         IN  IF r.kind = "raise" THEN r ELSE Value(FracGeq(r.v, 65, 100))
    ELSE None

is_center(el, er) ==
    IF pupils_located(el, er)
    THEN LET r == is_right(el, er)
             l == is_left(el, er)
         IN  IF r.kind = "raise" THEN r
             ELSE IF r = Value(TRUE) THEN Value(FALSE)
             ELSE IF l.kind = "raise" THEN l
             ELSE Value(l # Value(TRUE))
    ELSE None

\* variant: the threshold itself counts as blinking
is_blinking_inclusive(el, er) ==
    IF pupils_located(el, er)
    THEN Value(el.blinking + er.blinking >= 2 * 38)
    ELSE None

\* (eye_left.blinking + eye_right.blinking) / 2 > 3.8, in tenths
is_blinking(el, er) ==
    IF pupils_located(el, er)
    THEN Value(el.blinking + er.blinking > 2 * 38)
    ELSE None

eye_roi_bb(ca) == ca

-----------------------------------------------------------------------------
(* The main loop *)

Init ==
    /\ frame = None
    /\ eye_left = None
    /\ eye_right = None
    /\ coords_arr = None
    /\ p_xy = None
    /\ packet = None
    /\ sent = 0
    /\ pc = "read"
    /\ exc = None

\* frame = cam.read(); gaze.refresh(frame), with a.frame what the frame
\* yields and a.assigned = Analyze(a.frame)
Refresh(a) ==
    /\ pc = "read"
    /\ sent < MaxPackets
    /\ frame' = a.frame
    /\ eye_left' = Assign(a.assigned, "eye_left", eye_left)
    /\ eye_right' = Assign(a.assigned, "eye_right", eye_right)
    /\ coords_arr' = Assign(a.assigned, "coords_arr", coords_arr)
    /\ pc' = "coords"
    /\ UNCHANGED <<p_xy, packet, sent, exc>>

\* variant: the signed difference instead of the distance
euclidean_signed(p, q) == (q[1] - p[1]) + (q[2] - p[2])

\* int(dist.euclidean(p, q)) for two integer points on one row or one column
\* (one of the two differences is 0), the only way get_gaze_coords calls it
euclidean(p, q) == Abs(p[1] - q[1]) + Abs(p[2] - q[2])

\* get_gaze_coords(cam_frame): None, Value(<<x ratio, y ratio>>) or the
\* exception that leaves the function
get_gaze_coords(el, er, ca) ==
    LET left_pupil == pupil_left_coords(el, er)
        right_pupil == pupil_right_coords(el, er)
        coord_coll == eye_roi_bb(ca)
    IN
    IF coord_coll # None
    THEN
      LET left_coords == coord_coll.v[1]
          right_coords == coord_coll.v[2]
          left_x1 == left_coords[1]
          left_x2 == left_coords[2]
          left_y1 == left_coords[3]
          left_y2 == left_coords[4]
          right_x1 == right_coords[1]
          right_x2 == right_coords[2]
          right_y1 == right_coords[3]
          right_y2 == right_coords[4]
          avg_x1 == Trunc(left_x1 + right_x1 + 10, 2)
          avg_x2 == Trunc(left_x2 + right_x2 - 10, 2)
          avg_y1 == Trunc(left_y1 + right_y1 - 4, 2)
          avg_y2 == Trunc(left_y2 + right_y2 + 4, 2)
          avg_bbox_w == euclidean(<<avg_x1, avg_y1>>, <<avg_x2, avg_y1>>)
          avg_bbox_h == euclidean(<<avg_x1, avg_y1>>, <<avg_x1, avg_y2>>)
      IN
      \* `left_pupil or right_pupil is not None`: a tuple is truthy
      IF left_pupil # None \/ right_pupil # None
      THEN
        IF left_pupil = None \/ right_pupil = None
        THEN \* subscripting None raises inside the try: the names of the
             \* return statement are unbound
             Raise("UnboundLocalError")
        ELSE
          LET avg_pupil_x == Trunc(right_pupil.v[1] + left_pupil.v[1], 2)
              avg_pupil_y == Trunc(right_pupil.v[2] + left_pupil.v[2], 2)
              p_x_2_bbox == <<avg_x1, avg_pupil_y>>
              p_y_2_bbox == <<avg_pupil_x, avg_y1>>
              p_2_bbox_w_d == euclidean(p_x_2_bbox, <<avg_pupil_x, avg_pupil_y>>)
              p_2_bbox_h_d == euclidean(p_y_2_bbox, <<avg_pupil_x, avg_pupil_y>>)
          IN  IF p_2_bbox_w_d = 0 \/ p_2_bbox_h_d = 0
              THEN \* ZeroDivisionError is swallowed, then the return
                   \* statement reads an unbound name
                   Raise("UnboundLocalError")
              ELSE Value(<<[num |-> avg_bbox_w, den |-> p_2_bbox_w_d],
                           [num |-> avg_bbox_h, den |-> p_2_bbox_h_d]>>)
      ELSE None
    ELSE None

\* p_xy = get_gaze_coords(frame)
GetGazeCoords ==
    /\ pc = "coords"
    /\ LET r == get_gaze_coords(eye_left, eye_right, coords_arr)
       IN  IF r.kind = "raise"
           THEN /\ pc' = "crashed"
                /\ exc' = r
                /\ UNCHANGED p_xy
           ELSE /\ pc' = "send"
                /\ p_xy' = r
                /\ UNCHANGED exc
    /\ UNCHANGED <<frame, eye_left, eye_right, coords_arr, packet, sent>>

\* `if gaze.is_blinking:` tests the bound method itself, which is truthy
blink_flag(el, er) == 1

\* int(sc / ratio) for ratio = num / den, num > 0
Estimate(sc, ratio) == Trunc(sc * ratio.den, ratio.num)

\* the body of `if p_xy is not None:` up to sock.sendall
SendGaze ==
    /\ pc = "send"
    /\ p_xy # None
    /\ IF p_xy.v[1].num = 0 \/ p_xy.v[2].num = 0
       THEN \* sc_width / 0.0
            /\ pc' = "crashed"
            /\ exc' = Raise("ZeroDivisionError")
            /\ UNCHANGED <<packet, sent>>
       ELSE LET est_x == Estimate(sc_width, p_xy.v[1])
                est_y == Estimate(sc_height, p_xy.v[2])
                blink == blink_flag(eye_left, eye_right)
                gaze_coord == <<est_x, est_y, blink>>
            IN  /\ packet' = Value(gaze_coord)
                /\ sent' = sent + 1
                /\ pc' = "show"
                /\ UNCHANGED exc
    /\ UNCHANGED <<frame, eye_left, eye_right, coords_arr, p_xy>>

\* p_xy is None: nothing is sent
SkipGaze ==
    /\ pc = "send"
    /\ p_xy = None
    /\ pc' = "show"
    /\ UNCHANGED <<frame, eye_left, eye_right, coords_arr, p_xy, packet, sent, exc>>

\* annotated_frame, imshow; waitKey(1) returned another key than ESC
Continue ==
    /\ pc = "show"
    /\ pc' = "read"
    /\ UNCHANGED <<frame, eye_left, eye_right, coords_arr, p_xy, packet, sent, exc>>

\* waitKey(1) == 27: break
Quit ==
    /\ pc = "show"
    /\ pc' = "stopped"
    /\ UNCHANGED <<frame, eye_left, eye_right, coords_arr, p_xy, packet, sent, exc>>

Next ==
    \/ \E a \in Analyses : Refresh(a)
    \/ GetGazeCoords
    \/ SendGaze
    \/ SkipGaze
    \/ Continue
    \/ Quit

Spec == Init /\ [][Next]_vars

-----------------------------------------------------------------------------
(* Properties.  They are stated on the inputs of the frame (frame) and with *)
(* their own arithmetic, not with the helper operators of the model.        *)

FaceSeen == frame # None /\ frame.faces > 0
NoFace == frame # None /\ frame.faces = 0

Located == pupils_located(eye_left, eye_right)

\* the blinking ratios of the frame's two eyes average to more than 3.8
BlinkAverageHigh == frame.blinking[1] + frame.blinking[2] > 76

\* int(n / 2) and |a - b|
IntHalf(n) == IF n >= 0 THEN n \div 2 ELSE -((-n) \div 2)
Dist(a, b) == IF a >= b THEN a - b ELSE b - a

\* a / b = c / d for quotients [num, den]
FracEq(q, r) == q.num * r.den = r.num * q.den

\* C1: after a refresh on a frame without a face nothing has escaped the
\* iteration, pupils_located is false and every query returns None, whatever
\* the earlier frames were.
C1_NoFaceUndetermined ==
    NoFace =>
        /\ pc # "crashed"
        /\ ~pupils_located(eye_left, eye_right)
        /\ horizontal_ratio(eye_left, eye_right) = None
        /\ vertical_ratio(eye_left, eye_right) = None
        /\ is_left(eye_left, eye_right) = None
        /\ is_right(eye_left, eye_right) = None
        /\ is_center(eye_left, eye_right) = None
        /\ is_blinking(eye_left, eye_right) = None
        /\ pupil_left_coords(eye_left, eye_right) = None
        /\ pupil_right_coords(eye_left, eye_right) = None

\* a frame without a face right after an iteration that located both pupils
\* and sent a packet
C1_Witness ==
    /\ NoFace /\ pc = "coords"
    /\ coords_arr # None /\ p_xy # None /\ sent > 0

\* C2: an iteration on a frame with a face and both pupils located never
\* raises and sends its message.
C2_LocatedNeverRaises ==
    (FaceSeen /\ Located) =>
        /\ pc # "crashed"
        /\ (pc = "show" => p_xy # None)

\* C3: the blink field of a packet that was sent is 1 exactly when the
\* average blinking ratio of the frame is above 3.8, and 0 otherwise.
C3_BlinkField ==
    (pc = "show" /\ p_xy # None) =>
        packet.v[3] = (IF BlinkAverageHigh THEN 1 ELSE 0)

\* C4: in an iteration whose frame leaves pupils_located false,
\* get_gaze_coords returns None, nothing is sent and nothing is raised; a
\* ratio pair comes only from a frame with both pupils.
C4_NothingSentWithoutPupils ==
    [][ (pc \in {"coords", "send"} /\ ~Located) =>
            /\ sent' = sent
            /\ packet' = packet
            /\ pc' # "crashed"
            /\ (pc = "coords" => p_xy' = None) ]_vars

\* a frame with a face and only the right pupil, after an iteration that
\* located both pupils and sent a packet: nothing was sent for it
C4_Witness ==
    /\ pc = "show" /\ FaceSeen
    /\ frame.pupil[1] = <<>> /\ frame.pupil[2] # <<>>
    /\ p_xy = None /\ sent = 1

\* C5: whenever pupils_located is true, exactly one of is_left, is_right,
\* is_center returns true and the other two return false.
C5_ExactlyOneDirection ==
    Located =>
        LET l == is_left(eye_left, eye_right)
            r == is_right(eye_left, eye_right)
            c == is_center(eye_left, eye_right)
        IN  \/ l = Value(TRUE) /\ r = Value(FALSE) /\ c = Value(FALSE)
            \/ l = Value(FALSE) /\ r = Value(TRUE) /\ c = Value(FALSE)
            \/ l = Value(FALSE) /\ r = Value(FALSE) /\ c = Value(TRUE)

C7_BoxesOfThisFrame ==
    frame # None =>
        eye_roi_bb(coords_arr) =
            (IF frame.faces > 0
             THEN Value(<< <<frame.landmarks[36][1], frame.landmarks[39][1],
                             frame.landmarks[37][2], frame.landmarks[40][2]>>,
                           <<frame.landmarks[42][1], frame.landmarks[45][1],
                             frame.landmarks[44][2], frame.landmarks[47][2]>> >>)
             ELSE None)

\* C8, as claimed: the pair returned is (box_width / left_distance,
\* box_height / top_distance) of the untruncated averages.  Every length is
\* kept doubled, which leaves the quotients as they are.
C8_RatiosOfExactAverages ==
    (pc = "send" /\ p_xy # None) =>
        LET l == coords_arr.v[1]
            r == coords_arr.v[2]
            pl == pupil_left_coords(eye_left, eye_right).v
            pr == pupil_right_coords(eye_left, eye_right).v
            avg_x1 == l[1] + r[1] + 10
            avg_x2 == l[2] + r[2] - 10
            avg_y1 == l[3] + r[3] - 4
            avg_y2 == l[4] + r[4] + 4
            pupil_x == pl[1] + pr[1]
            pupil_y == pl[2] + pr[2]
        IN  /\ FracEq(p_xy.v[1], [num |-> Dist(avg_x2, avg_x1),
                                  den |-> Dist(pupil_x, avg_x1)])
            /\ FracEq(p_xy.v[2], [num |-> Dist(avg_y2, avg_y1),
                                  den |-> Dist(pupil_y, avg_y1)])

\* C8, amended: with the four box averages and the two pupil averages each
\* truncated to an integer, get_gaze_coords returns (box_width /
\* left_distance, box_height / top_distance) when both distances are not 0,
\* and raises when one of them is 0.
C8_RatiosOfTruncatedAverages ==
    [][ (pc = "coords" /\ Located /\ coords_arr # None) =>
          LET l == coords_arr.v[1]
              r == coords_arr.v[2]
              pl == <<eye_left.origin[1] + eye_left.pupil[1],
                      eye_left.origin[2] + eye_left.pupil[2]>>
              pr == <<eye_right.origin[1] + eye_right.pupil[1],
                      eye_right.origin[2] + eye_right.pupil[2]>>
              avg_x1 == IntHalf(l[1] + r[1] + 10)
              avg_x2 == IntHalf(l[2] + r[2] - 10)
              avg_y1 == IntHalf(l[3] + r[3] - 4)
              avg_y2 == IntHalf(l[4] + r[4] + 4)
              pupil_x == IntHalf(pl[1] + pr[1])
              pupil_y == IntHalf(pl[2] + pr[2])
              left_distance == Dist(pupil_x, avg_x1)
              top_distance == Dist(pupil_y, avg_y1)
          IN  IF left_distance = 0 \/ top_distance = 0
              THEN pc' = "crashed" /\ exc' = Raise("UnboundLocalError")
              ELSE /\ pc' = "send"
                   /\ p_xy' = Value(<<[num |-> Dist(avg_x2, avg_x1),
                                       den |-> left_distance],
                                      [num |-> Dist(avg_y2, avg_y1),
                                       den |-> top_distance]>>) ]_vars

\* pupils at (100,100) and (200,100), averaged box with top-left (90,85),
\* width 50 and height 30: the pair returned is (50/60, 30/15)
C8_Witness ==
    /\ pc = "send"
    /\ pupil_left_coords(eye_left, eye_right) = Value(<<100, 100>>)
    /\ pupil_right_coords(eye_left, eye_right) = Value(<<200, 100>>)
    /\ p_xy = Value(<<[num |-> 50, den |-> 60], [num |-> 30, den |-> 15]>>)

\* C9: with both pupils located inside their regions, horizontal_ratio and
\* vertical_ratio return a value in [0, 1] and do not raise.
InRegion(eye) ==
    /\ 0 <= eye.pupil[1] /\ eye.pupil[1] <= eye.size[1]
    /\ 0 <= eye.pupil[2] /\ eye.pupil[2] <= eye.size[2]

InUnitInterval(res) ==
    /\ res.kind = "value"
    /\ IF res.v.den > 0
       THEN 0 <= res.v.num /\ res.v.num <= res.v.den
       ELSE 0 >= res.v.num /\ res.v.num >= res.v.den

C9_RatiosInUnitInterval ==
    (Located /\ InRegion(eye_left) /\ InRegion(eye_right)) =>
        /\ InUnitInterval(horizontal_ratio(eye_left, eye_right))
        /\ InUnitInterval(vertical_ratio(eye_left, eye_right))

\* C10: pupils_located is true exactly when the latest frame had a face (both
\* eyes are present) and the pupil detection found a pupil in both eyes; a
\* coordinate 0 counts as found.
C10_LocatedIffBothPupils ==
    /\ (eye_left # None /\ eye_right # None) <=> FaceSeen
    /\ (eye_left # None \/ eye_right # None) <=> FaceSeen
    /\ pupils_located(eye_left, eye_right) <=>
           (FaceSeen /\ frame.pupil[1] # <<>> /\ frame.pupil[2] # <<>>)

\* both pupils located, the left one at (0, 0), in a frame that follows
\* an iteration that sent a packet
C10_Witness ==
    /\ pupils_located(eye_left, eye_right)
    /\ frame.pupil[1] = <<0, 0>>
    /\ pc = "coords" /\ sent > 0

=============================================================================
